---- MODULE Spec2Model ----
(***************************************************************************)
(* FinancialSentimentCollector.collect_sentiment_data_batch                *)
(* (src/dataset.py): one caller thread that fans the collectors out over a *)
(* ThreadPoolExecutor(max_workers=5), phase by phase (price, news,         *)
(* social), consumes the futures with as_completed, writes one snapshot    *)
(* file per successful result and merges every outcome into `results`.     *)
(***************************************************************************)
EXTENDS Integers, Sequences, FiniteSets, TLC

\* ------------------------------------------------------------------ bounds
\* longest ticker list of a batch (longer than the pool is wide)
MaxTickers == 6
\* longest ticker list of a batch in which calls and writes are let fail
MaxFaultyTickers == 2
\* how many collector calls / file writes of such a batch may fail
MaxFaults == 1

\* ------------------------------------------------------- program constants
\* ThreadPoolExecutor(max_workers=5)
max_workers == 5

\* _get_stock_list("major")
MajorStocks ==
  <<"AAPL", "MSFT", "AMZN", "GOOGL", "META", "TSLA", "NVDA", "JPM", "BAC", "WMT">>

\* the three source categories, in the order the batch runs them
Categories == <<"price", "news", "social">>

CatSet == {"price", "news", "social"}

\* the key of the result map that holds a category's error message
ErrKey(cat) == cat \o "_error"

\* time.sleep(0.5), time.sleep(1), time.sleep(2), in milliseconds
Delay(cat) == CASE cat = "price" -> 500
                [] cat = "news" -> 1000
                [] cat = "social" -> 2000

\* Python's None as the value a call returns
None == [kind |-> "None"]

\* ------------------------------------------------------------------- state
VARIABLES
  tickers,              \* argument: the list of symbols of the batch
  collect,              \* arguments collect_price / collect_news / collect_social
  twitter_credentials,  \* self.twitter_credentials is set (all four given)
  newsapi_key,          \* self.newsapi_key is set
  pc,                   \* where the caller thread is
  phase,                \* index into Categories of the phase the caller is in
  tasks,                \* per category: the futures submitted, in order
  work_queue,           \* the executor's FIFO of work items not yet started
  results,              \* the local dict `results`
  files,                \* the snapshot files on disk
  slept,                \* total time the caller spent in time.sleep, ms
  pauses,               \* per category: how many time.sleep calls were made
  iter,                 \* the loop's current iteration: its future, its branch
  faults,               \* failures injected so far
  social_calls,         \* calls made to the social platform
  retval,               \* what the call returned, once it has
  call,                 \* a single collector call under study: its inputs
  ret                   \* what that collector call returned, once it has

vars == <<tickers, collect, twitter_credentials, newsapi_key, pc, phase, tasks,
          work_queue, results, files, slept, pauses, iter, faults,
          social_calls, retval, call, ret>>

\* ----------------------------------------------------------------- helpers
Prefix(n) == SubSeq(MajorStocks, 1, n)

Range(s) == {s[i] : i \in DOMAIN s}

\* the ticker lists a batch is run on: distinct symbols, and lists that name
\* the first symbol a second time
TickerLists ==
  {Prefix(n) : n \in 0..MaxTickers}
    \cup {Append(Prefix(n), MajorStocks[1]) : n \in 1..(MaxFaultyTickers - 1)}

\* the environment: how many calls and writes of this batch may fail; in the
\* batches wider than MaxFaultyTickers every provider and every write answers
FaultBudget == IF Len(tickers) <= MaxFaultyTickers THEN MaxFaults ELSE 0

Cat == Categories[phase]

\* all futures of all phases, as <<category, index>>
AllTasks == {<<c, i>> : c \in CatSet, i \in DOMAIN tickers}

Submitted == {t \in AllTasks : t[2] \in DOMAIN tasks[t[1]]}

InState(st) == {t \in Submitted : tasks[t[1]][t[2]].state = st}

Running == InState("running")

\* d[k], for a dict d
HasKey(d, k) == k \in DOMAIN d

\* d[k] = v
SetKey(d, k, v) == [x \in DOMAIN d \cup {k} |-> IF x = k THEN v ELSE d[x]]

\* -------------------------------------------------------------- collectors
\* What one call of a collector can return: a dict, as a function from its
\* keys; the values are abstracted to what the caller can tell apart.

\* collect_price_data(ticker, asset_type)
collect_price_data(ticker) ==
  { [ticker |-> ticker, asset_type |-> "asset_type", interval |-> "1h",
     price_data |-> "bars", metadata |-> "metadata"],
    \* hist.empty
    [error |-> "No historical data available"],
    \* except Exception as e
    [ticker |-> ticker, error |-> "exception"] }

\* collect_alternative_news(ticker, asset_type)
collect_alternative_news(ticker) ==
  { [ticker |-> ticker, asset_type |-> "asset_type",
     news_sentiment |-> "articles", metadata |-> "metadata"],
    \* not articles
    [ticker |-> ticker, status |-> "No articles found through alternative sources",
     metadata |-> "metadata"],
    \* except Exception as e
    [ticker |-> ticker, error |-> "Alternative news collection failed"] }

\* collect_news_sentiment(ticker, asset_type)
collect_news_sentiment(ticker, key) ==
  IF ~key
    THEN collect_alternative_news(ticker)
    ELSE { [ticker |-> ticker, asset_type |-> "asset_type",
            news_sentiment |-> "daily_averages and articles",
            metadata |-> "metadata"],
           [ticker |-> ticker, error |-> "exception"] }
         \cup collect_alternative_news(ticker)

\* collect_social_sentiment(ticker, asset_type)
collect_social_sentiment(ticker, credentials) ==
  IF ~credentials
    THEN { [ticker |-> ticker, status |-> "Twitter API credentials not provided"] }
    ELSE { [ticker |-> ticker, asset_type |-> "asset_type",
            social_sentiment |-> "hourly_averages and tweets",
            metadata |-> "metadata"],
           [ticker |-> ticker, error |-> "Social sentiment collection failed"] }

\* the collector a phase submits, executor.submit(self.collect_<cat>..., ticker)
Collector(cat, ticker) ==
  CASE cat = "price" -> collect_price_data(ticker)
    [] cat = "news" -> collect_news_sentiment(ticker, newsapi_key)
    [] cat = "social" -> collect_social_sentiment(ticker, twitter_credentials)

\* the result a collector gives when every provider answers as hoped
IsPayload(data) == HasKey(data, "metadata") /\ ~HasKey(data, "status")
                     /\ ~HasKey(data, "error")

\* the environment's count of failures: a result that came out of a failure
\* somewhere is anything but a payload, and the scraped payload when the news
\* key is there (the provider failed)
IsFault(cat, data) ==
  \/ ~IsPayload(data)
  \/ cat = "news" /\ newsapi_key /\ data.news_sentiment = "articles"

\* ------------------------------------------------------------------- Init
Init ==
  /\ tickers \in TickerLists
  /\ collect \in [CatSet -> BOOLEAN]
  /\ twitter_credentials \in BOOLEAN
  /\ newsapi_key \in BOOLEAN
  /\ pc = "check"
  /\ phase = 1
  /\ tasks = [c \in CatSet |-> <<>>]
  /\ work_queue = <<>>
  /\ results = <<>>
  /\ files = <<>>
  /\ slept = 0
  /\ pauses = [c \in CatSet |-> 0]
  /\ iter = [branch |-> "none"]
  /\ faults = 0
  /\ social_calls = 0
  /\ retval = [kind |-> "running"]
  /\ call = [fn |-> "batch"]
  /\ ret = None

\* ------------------------------------------------------ the caller thread
\* PhaseEnabled without the credentials test of the social phase
PhaseEnabledNoCredentials(cat) == collect[cat]

\* `if collect_price:` / `if collect_news:` /
\* `if collect_social and self.twitter_credentials:`
PhaseEnabled(cat) ==
  /\ collect[cat]
  /\ cat = "social" => twitter_credentials

\* the caller moves on to the statement after a phase
NextPhase ==
  IF phase < Len(Categories)
    THEN /\ phase' = phase + 1
         /\ pc' = "check"
    ELSE /\ phase' = phase
         /\ pc' = "return"

\* the `if` that guards a phase
CheckPhase ==
  /\ pc = "check"
  /\ IF PhaseEnabled(Cat)
       THEN /\ pc' = "submit"
            /\ phase' = phase
       ELSE NextPhase
  /\ UNCHANGED <<call, ret, tickers, collect, twitter_credentials, newsapi_key, tasks,
                 work_queue, results, files, slept, pauses, iter, faults,
                 social_calls, retval>>

\* one executor.submit of the dict comprehension that builds future_to_ticker
Submit ==
  /\ pc = "submit"
  /\ Len(tasks[Cat]) < Len(tickers)
  /\ LET i == Len(tasks[Cat]) + 1 IN
       /\ tasks' = [tasks EXCEPT ![Cat] =
                      Append(@, [ticker |-> tickers[i], state |-> "queued",
                                 data |-> None])]
       /\ work_queue' = Append(work_queue, <<Cat, i>>)
  /\ UNCHANGED <<call, ret, tickers, collect, twitter_credentials, newsapi_key, pc, phase,
                 results, files, slept, pauses, iter, faults, social_calls,
                 retval>>

\* the comprehension is through: the caller enters `for future in as_completed`
EnterLoop ==
  /\ pc = "submit"
  /\ Len(tasks[Cat]) = Len(tickers)
  /\ pc' = "loop"
  /\ UNCHANGED <<call, ret, tickers, collect, twitter_credentials, newsapi_key, phase,
                 tasks, work_queue, results, files, slept, pauses, iter, faults,
                 social_calls, retval>>

\* ------------------------------------------------------- the pool's workers
\* WorkerFree of a pool without a limit
WorkerAlwaysFree == TRUE

\* a worker thread is free to take the next work item
WorkerFree == Cardinality(Running) < max_workers

\* a worker takes the oldest work item and starts the collector
StartTask ==
  /\ work_queue # <<>>
  /\ WorkerFree
  /\ LET t == Head(work_queue) IN
       /\ tasks' = [tasks EXCEPT ![t[1]][t[2]].state = "running"]
       /\ social_calls' = IF t[1] = "social" /\ twitter_credentials
                            THEN social_calls + 1 ELSE social_calls
  /\ work_queue' = Tail(work_queue)
  /\ UNCHANGED <<call, ret, tickers, collect, twitter_credentials, newsapi_key, pc, phase,
                 results, files, slept, pauses, iter, faults, retval>>

\* FinishTask in which the worker itself files its result in the result map
FinishTaskWriting ==
  \E t \in Running :
    \E data \in Collector(t[1], tasks[t[1]][t[2]].ticker) :
      /\ IsFault(t[1], data) => faults < FaultBudget
      /\ faults' = IF IsFault(t[1], data) THEN faults + 1 ELSE faults
      /\ tasks' = [tasks EXCEPT ![t[1]][t[2]].state = "done",
                                ![t[1]][t[2]].data = data]
      /\ results' = SetKey(results, tasks[t[1]][t[2]].ticker,
                           SetKey(<<>>, t[1], data))
      /\ UNCHANGED <<call, ret, tickers, collect, twitter_credentials, newsapi_key, pc,
                     phase, work_queue, files, slept, pauses, iter,
                     social_calls, retval>>

\* a running collector returns; the future holds its result
FinishTask ==
  \E t \in Running :
    \E data \in Collector(t[1], tasks[t[1]][t[2]].ticker) :
      /\ IsFault(t[1], data) => faults < FaultBudget
      /\ faults' = IF IsFault(t[1], data) THEN faults + 1 ELSE faults
      /\ tasks' = [tasks EXCEPT ![t[1]][t[2]].state = "done",
                                ![t[1]][t[2]].data = data]
      /\ UNCHANGED <<call, ret, tickers, collect, twitter_credentials, newsapi_key, pc,
                     phase, work_queue, results, files, slept, pauses, iter,
                     social_calls, retval>>

\* ------------------------------------------------------ the completion loop
\* `if "error" not in data:` the result is saved and recorded as the category
ShouldSave(data) == ~HasKey(data, "error")

\* Merge that starts the ticker's entry afresh instead of keeping it
MergeReplacing(res, ticker, key, value) ==
  SetKey(res, ticker, SetKey(<<>>, key, value))

\* `if ticker not in results: results[ticker] = {}` and
\* `results[ticker][key] = value`
Merge(res, ticker, key, value) ==
  SetKey(res, ticker,
         SetKey(IF HasKey(res, ticker) THEN res[ticker] ELSE <<>>, key, value))

\* how `with open(file_path, 'w') as f: json.dump(data, f, indent=2)` can end
WriteOutcomes == {"written", "open_fails", "dump_fails"}

\* the file <ticker>_<cat>.json after the write: open(..., 'w') that succeeds
\* truncates the file, json.dump that fails leaves what it wrote so far
WriteFile(fs, cat, ticker, data, outcome) ==
  CASE outcome = "written" -> SetKey(fs, <<cat, ticker>>, data)
    [] outcome = "dump_fails" -> SetKey(fs, <<cat, ticker>>, [partial |-> TRUE])
    [] outcome = "open_fails" -> fs

\* Completed of a loop that forgets the future submitted last
CompletedButLast ==
  {t \in InState("done") : t[1] = Cat /\ t[2] < Len(tasks[Cat])}

\* the futures as_completed(future_to_ticker) can yield next: the finished
\* futures of this phase's dict that it has not yielded yet
Completed == {t \in InState("done") : t[1] = Cat}

\* LoopDone that only looks at the futures which are finished by now
LoopDoneEarly == Completed = {}

\* the loop has yielded every future of future_to_ticker
LoopDone == \A i \in DOMAIN tasks[Cat] : tasks[Cat][i].state = "handled"

\* the success branch: `results[ticker]["<cat>"] = data`
OnSaved(res, ticker, cat, data) == Merge(res, ticker, cat, data)

\* OnErrorResult that records the result under the category as well
OnErrorResultBoth(res, ticker, cat, data) ==
  Merge(Merge(res, ticker, cat, data), ticker, ErrKey(cat), data.error)

\* the else branch: `results[ticker]["<cat>_error"] = data["error"]`
OnErrorResult(res, ticker, cat, data) == Merge(res, ticker, ErrKey(cat), data.error)

\* OnException that swallows the exception without recording it
OnExceptionSwallowed(res, ticker, cat, e) == res

\* `except Exception as e:` `results[ticker]["<cat>_error"] = str(e)`
OnException(res, ticker, cat, e) == Merge(res, ticker, ErrKey(cat), e)

\* PcAfterTry with the sleep inside the try block: an exception skips it
PcAfterTrySkipping(branch) == IF branch = "except" THEN "loop" ELSE "sleep"

\* where the iteration goes on after the try statement, whatever its branch:
\* the time.sleep that follows it in the loop body
PcAfterTry(branch) == "sleep"

\* one iteration of `for future in as_completed(future_to_ticker)`, up to
\* the sleep: the try block and its except clause (future.result() itself
\* never raises: every collector catches Exception and returns a dict)
Handle ==
  /\ pc = "loop"
  /\ \E t \in Completed :
       LET ticker == tasks[Cat][t[2]].ticker
           data == tasks[Cat][t[2]].data
       IN /\ tasks' = [tasks EXCEPT ![Cat][t[2]].state = "handled"]
          /\ IF ShouldSave(data)
               THEN \E w \in WriteOutcomes :
                      /\ w # "written" => faults < FaultBudget
                      /\ faults' = IF w # "written" THEN faults + 1 ELSE faults
                      /\ files' = WriteFile(files, Cat, ticker, data, w)
                      /\ IF w = "written"
                           THEN /\ results' = OnSaved(results, ticker, Cat, data)
                                /\ iter' = [branch |-> "saved", future |-> t]
                           ELSE /\ results' = OnException(results, ticker, Cat, w)
                                /\ iter' = [branch |-> "except", future |-> t]
               ELSE /\ results' = OnErrorResult(results, ticker, Cat, data)
                    /\ iter' = [branch |-> "error", future |-> t]
                    /\ UNCHANGED <<files, faults>>
  /\ pc' = PcAfterTry(iter'.branch)
  /\ UNCHANGED <<call, ret, tickers, collect, twitter_credentials, newsapi_key, phase,
                 work_queue, slept, pauses, social_calls, retval>>

\* time.sleep(...) that ends the iteration
Sleep ==
  /\ pc = "sleep"
  /\ slept' = slept + Delay(Cat)
  /\ pauses' = [pauses EXCEPT ![Cat] = @ + 1]
  /\ iter' = [branch |-> "none"]
  /\ pc' = "loop"
  /\ UNCHANGED <<call, ret, tickers, collect, twitter_credentials, newsapi_key, phase,
                 tasks, work_queue, results, files, faults, social_calls,
                 retval>>

\* as_completed is exhausted: the caller leaves the phase
ExitLoop ==
  /\ pc = "loop"
  /\ LoopDone
  /\ NextPhase
  /\ UNCHANGED <<call, ret, tickers, collect, twitter_credentials, newsapi_key, tasks,
                 work_queue, results, files, slept, pauses, iter, faults,
                 social_calls, retval>>

\* the value of the call: the function body ends after the social phase
\* without a return statement
ReturnValue(res) == None

\* the with block ends (executor.shutdown(wait=True)) and the call returns
Return ==
  /\ pc = "return"
  /\ work_queue = <<>>
  /\ Running = {}
  /\ retval' = ReturnValue(results)
  /\ pc' = "done"
  /\ UNCHANGED <<call, ret, tickers, collect, twitter_credentials, newsapi_key, phase,
                 tasks, work_queue, results, files, slept, pauses, iter, faults,
                 social_calls>>

Next ==
  \/ CheckPhase
  \/ Submit
  \/ EnterLoop
  \/ StartTask
  \/ FinishTask
  \/ Handle
  \/ Sleep
  \/ ExitLoop
  \/ Return

Spec == Init /\ [][Next]_vars

\* ------------------------------------------------------------ the claims
Distinct(s) == \A i, j \in DOMAIN s : s[i] = s[j] => i = j

CatIndex(cat) == CHOOSE i \in DOMAIN Categories : Categories[i] = cat

\* the caller has left the phase of cat
PhaseOver(cat) == CatIndex(cat) < phase \/ pc \in {"return", "done"}

\* the phase of cat ran and is over
PhaseRan(cat) == PhaseEnabled(cat) /\ PhaseOver(cat)

HandledCount(cat) ==
  Cardinality({i \in DOMAIN tasks[cat] : tasks[cat][i].state = "handled"})

\* the ticker and the collector result of the iteration under way
IterTicker == tasks[iter.future[1]][iter.future[2]].ticker

IterData == tasks[iter.future[1]][iter.future[2]].data

\* C1: once a phase of a batch of distinct instruments is over, every
\* instrument has an entry in the result map and the entry holds exactly one
\* of <category> and <category>_error; when the batch is through and some
\* phase ran, the map has exactly one entry per instrument.
C1_ExactlyOneKeyPerCategory ==
  Distinct(tickers) =>
    /\ \A c \in CatSet :
         PhaseRan(c) =>
           \A t \in Range(tickers) :
             /\ HasKey(results, t)
             /\ HasKey(results[t], c) # HasKey(results[t], ErrKey(c))
    /\ (pc = "done" /\ \E c \in CatSet : PhaseEnabled(c)) =>
         DOMAIN results = Range(tickers)

C1_Witness ==
  /\ pc = "done"
  /\ tickers = Prefix(2)
  /\ collect = [c \in CatSet |-> c = "price"]
  /\ HasKey(results[tickers[1]], "price")
  /\ HasKey(results[tickers[2]], "price_error")

\* C2: when the call has returned, the value it returned is the result map
\* it accumulated.
C2_ReturnsResultMap ==
  pc = "done" => retval = [kind |-> "dict", value |-> results]

\* C3: the loop opens a snapshot file for writing only for a result that is
\* a populated payload; an error, a no-data or a not-configured result
\* causes no write.
C3_WriteOnlyPayload ==
  iter.branch \in {"saved", "except"} => IsPayload(IterData)

\* C4: every result a collector returned is a populated payload with
\* metadata, or an error record with the instrument and a message.
C4_PayloadOrError ==
  \A t \in InState("done") \cup InState("handled") :
    LET data == tasks[t[1]][t[2]].data
    IN \/ IsPayload(data)
       \/ DOMAIN data = {"ticker", "error"}

\* C5: while any task of a phase exists, every task of every earlier phase
\* that was to run has been submitted, has completed and has been handled.
C5_PhasesNeverInterleave ==
  \A i, j \in DOMAIN Categories :
    (i < j /\ tasks[Categories[j]] # <<>>) =>
      /\ PhaseEnabled(Categories[i]) =>
           Len(tasks[Categories[i]]) = Len(tickers)
      /\ \A k \in DOMAIN tasks[Categories[i]] :
           tasks[Categories[i]][k].state = "handled"

C5_Witness ==
  /\ Len(tasks["price"]) >= 2
  /\ \E t \in Running : t[1] = "news"
  /\ \E t \in InState("queued") : t[1] = "news"

\* C6: at most max_workers collector tasks execute at any instant, and they
\* all belong to one phase.
C6_AtMostFiveRunning ==
  /\ Cardinality(Running) <= max_workers
  /\ \A a, b \in Running : a[1] = b[1]

C6_Witness ==
  /\ Len(tickers) > max_workers
  /\ Cardinality(Running) = max_workers
  /\ work_queue # <<>>

\* C7, the batch is never cut short: when the call is through, every phase
\* that was to run has submitted and handled one task per list element and
\* recorded its outcome
C7_AllHandled ==
  pc = "done" =>
    \A c \in CatSet :
      PhaseEnabled(c) =>
        /\ Len(tasks[c]) = Len(tickers)
        /\ \A k \in DOMAIN tasks[c] :
             /\ tasks[c][k].state = "handled"
             /\ tasks[c][k].ticker = tickers[k]
             /\ HasKey(results, tickers[k])
             /\ \/ HasKey(results[tickers[k]], c)
                \/ HasKey(results[tickers[k]], ErrKey(c))

\* C7, no step changes what another phase recorded for an instrument
C7_OtherKeysKept ==
  \A t \in DOMAIN results :
    \A k \in DOMAIN results[t] :
      k \notin {Cat, ErrKey(Cat)} =>
        /\ HasKey(results', t)
        /\ HasKey(results'[t], k)
        /\ results'[t][k] = results[t][k]

\* C7: a failure for one instrument in one category never aborts the batch:
\* every task of every phase is still handled and recorded, and the keys
\* earlier phases recorded stay as they are.
C7_FailureIsolated == [](C7_AllHandled) /\ [][C7_OtherKeysKept]_vars

C7_Witness ==
  /\ pc = "done"
  /\ tickers = Prefix(2)
  /\ \A c \in CatSet : PhaseEnabled(c)
  /\ HasKey(results[tickers[1]], "price_error")
  /\ HasKey(results[tickers[1]], "news")
  /\ HasKey(results[tickers[1]], "social")
  /\ HasKey(results[tickers[2]], "price")
  /\ HasKey(results[tickers[2]], "social")

\* C8: the step that handles a successful result whose file write fails
\* records <category>_error for the instrument, records nothing under
\* <category>, and goes on to the pause and the next completed result.
C8_WriteFailureRecorded ==
  [][(iter'.branch = "except" /\ iter.branch # "except") =>
       LET f == iter'.future
           t == tasks[f[1]][f[2]].ticker
       IN /\ f[1] = Cat
          /\ HasKey(results', t)
          /\ HasKey(results'[t], ErrKey(Cat))
          /\ HasKey(results'[t], Cat) =>
               /\ HasKey(results, t)
               /\ HasKey(results[t], Cat)
               /\ results'[t][Cat] = results[t][Cat]
          /\ pc' = "sleep"
          /\ retval' = retval]_vars

C8_Witness ==
  /\ iter.branch = "except"
  /\ HasKey(results[IterTicker], ErrKey(Cat))
  /\ ~HasKey(results[IterTicker], Cat)
  /\ \E t \in Completed : TRUE

\* C9: every handled result is followed by one pause of its category's
\* delay before the next result is handled: outside a pause the number of
\* pauses of a phase equals the number of results handled, a result just
\* handled has its pause pending, the time slept is the sum of the pauses'
\* delays, and a phase that is over has paused once per task.
C9_PausePerResult ==
  /\ \A c \in CatSet :
       pauses[c] = HandledCount(c) - (IF pc = "sleep" /\ Cat = c THEN 1 ELSE 0)
  /\ slept = pauses["price"] * 500 + pauses["news"] * 1000
               + pauses["social"] * 2000
  /\ \A c \in CatSet : PhaseRan(c) => pauses[c] = Len(tickers)

C9_Witness ==
  /\ pc = "loop"
  /\ Cat = "news"
  /\ pauses = [c \in CatSet |-> IF c = "social" THEN 0 ELSE 2]
  /\ slept = 3000
  /\ HasKey(results[tickers[1]], "price_error")
  /\ HasKey(results[tickers[2]], "news")

\* C10, no social work without credentials
C10_NoSocialWork ==
  (collect["social"] /\ ~twitter_credentials) =>
    /\ tasks["social"] = <<>>
    /\ social_calls = 0
    /\ \A f \in DOMAIN files : f[1] # "social"
    /\ \A t \in DOMAIN results :
         ~HasKey(results[t], "social") /\ ~HasKey(results[t], "social_error")

\* C10, the social phase leaves results and files alone
C10_SocialPhaseFrame ==
  (collect["social"] /\ ~twitter_credentials /\ Cat = "social") =>
    results' = results /\ files' = files

\* C10: without a full credential set a batch with collect_social submits no
\* social task, calls the platform never, writes no <symbol>_social.json and
\* leaves the result map as the price and news phases left it.
C10_SocialSkipped == [](C10_NoSocialWork) /\ [][C10_SocialPhaseFrame]_vars

C10_Witness ==
  /\ pc = "done"
  /\ ~twitter_credentials
  /\ \A c \in CatSet : collect[c]
  /\ tickers = Prefix(2)
  /\ HasKey(results[tickers[1]], "price")
  /\ HasKey(results[tickers[2]], "news")

\* ================================================= the collectors in detail
\* One call of a collector on given provider answers. The sentiment scorer
\* is a library; its compound score comes with the input, in hundredths.
\* Dates are yyyymmdd numbers and date-hours yyyymmddhh numbers, which order
\* as the ISO strings the code sorts by.

\* longest article list the news provider answers with
MaxArticles == 3

\* round(a / b, ...) of a quotient kept as an integer: to nearest, ties to
\* even, for b > 0
Round(a, b) ==
  LET q == a \div b
      r == a - q * b
  IN IF 2 * r < b THEN q
     ELSE IF 2 * r > b THEN q + 1
     ELSE IF q % 2 = 0 THEN q ELSE q + 1

\* "positive" if compound >= 0.05 else "negative" if compound <= -0.05 else
\* "neutral"
Label(compound) ==
  IF compound >= 5 THEN "positive"
  ELSE IF compound <= -5 THEN "negative" ELSE "neutral"

\* the "sentiment" dict of an article or a tweet
Sentiment(compound) == [compound |-> compound, label |-> Label(compound)]

\* `if len(text.strip()) < 20: continue` and the article_data that is built
RECURSIVE ProcessArticles(_)
ProcessArticles(raw) ==
  IF raw = <<>> THEN <<>>
  ELSE LET a == Head(raw)
       IN IF a.text_len < 20
            THEN ProcessArticles(Tail(raw))
            ELSE <<[published_at |-> a.publishedAt,
                    sentiment |-> Sentiment(a.compound)]>>
                   \o ProcessArticles(Tail(raw))

\* the index of key's bucket in a dict kept in insertion order, 0 if none
BucketIndex(buckets, key) ==
  IF \E i \in DOMAIN buckets : buckets[i].key = key
    THEN CHOOSE i \in DOMAIN buckets : buckets[i].key = key
    ELSE 0

\* `if date not in daily_sentiment: daily_sentiment[date] = {...}`
WithBucket(buckets, key) ==
  IF BucketIndex(buckets, key) # 0 THEN buckets
  ELSE Append(buckets, [key |-> key, count |-> 0, sentiment_sum |-> 0,
                        sentiment_weighted_sum |-> 0, total_weight |-> 0,
                        positive_count |-> 0, negative_count |-> 0,
                        neutral_count |-> 0])

\* CountItem whose else branch for the neutral label is missing
CountItemNoNeutral(bucket, sentiment, weight) ==
  [bucket EXCEPT
     !.count = @ + 1,
     !.sentiment_sum = @ + sentiment.compound,
     !.sentiment_weighted_sum = @ + sentiment.compound * weight,
     !.total_weight = @ + weight,
     !.positive_count = IF sentiment.label = "positive" THEN @ + 1 ELSE @,
     !.negative_count = IF sentiment.label = "negative" THEN @ + 1 ELSE @]

\* the increments of one item: the count, the sums, the label's counter
CountItem(bucket, sentiment, weight) ==
  [bucket EXCEPT
     !.count = @ + 1,
     !.sentiment_sum = @ + sentiment.compound,
     !.sentiment_weighted_sum = @ + sentiment.compound * weight,
     !.total_weight = @ + weight,
     !.positive_count = IF sentiment.label = "positive" THEN @ + 1 ELSE @,
     !.negative_count = IF sentiment.label = "negative" THEN @ + 1 ELSE @,
     !.neutral_count =
       IF sentiment.label \notin {"positive", "negative"} THEN @ + 1 ELSE @]

\* the loop `for article in articles:` that fills daily_sentiment; an
\* article without a timestamp raises at .split and is passed over
RECURSIVE GroupArticles(_, _)
GroupArticles(articles, buckets) ==
  IF articles = <<>> THEN buckets
  ELSE LET a == Head(articles)
       IN IF a.published_at = None
            THEN GroupArticles(Tail(articles), buckets)
            ELSE LET date == a.published_at.date
                     bs == WithBucket(buckets, date)
                     i == BucketIndex(bs, date)
                 IN GroupArticles(Tail(articles),
                      [bs EXCEPT ![i] = CountItem(@, a.sentiment, 1)])

\* `if data["articles"] > 0:` a bucket is emitted
Emitted(bucket) == bucket.count > 0

\* one entry of daily_averages; the average and the ratios are rounded to 3
\* decimals and kept in thousandths
DailyAggregate(b) ==
  [key |-> b.key,
   count |-> b.count,
   avg_sentiment |-> Round(b.sentiment_sum * 10, b.count),
   positive_ratio |-> Round(b.positive_count * 1000, b.count),
   negative_ratio |-> Round(b.negative_count * 1000, b.count),
   neutral_ratio |-> Round(b.neutral_count * 1000, b.count)]

\* one entry of hourly_averages, with the engagement-weighted average
HourlyAggregate(b) ==
  [key |-> b.key,
   count |-> b.count,
   avg_sentiment |-> Round(b.sentiment_sum * 10, b.count),
   weighted_sentiment |->
     IF b.total_weight > 0
       THEN Round(b.sentiment_weighted_sum * 10, b.total_weight)
       ELSE Round(b.sentiment_sum * 10, b.count),
   positive_ratio |-> Round(b.positive_count * 1000, b.count),
   negative_ratio |-> Round(b.negative_count * 1000, b.count),
   neutral_ratio |-> Round(b.neutral_count * 1000, b.count)]

\* the loop over the dict's items that builds the list of averages
RECURSIVE Averages(_, _)
Averages(buckets, hourly) ==
  IF buckets = <<>> THEN <<>>
  ELSE LET rest == Averages(Tail(buckets), hourly)
           b == Head(buckets)
       IN IF Emitted(b)
            THEN <<IF hourly THEN HourlyAggregate(b) ELSE DailyAggregate(b)>>
                   \o rest
            ELSE rest

\* list.insert into a list sorted by key, after the entries that are not
\* greater (sorted() is stable)
RECURSIVE Insert(_, _)
Insert(e, sorted) ==
  IF sorted = <<>> THEN <<e>>
  ELSE IF Head(sorted).key <= e.key
         THEN <<Head(sorted)>> \o Insert(e, Tail(sorted))
         ELSE <<e>> \o sorted

\* SortedByKey that leaves the list in the dict's order
Unsorted(list) == list

\* sorted(averages, key=lambda x: x["date"])
RECURSIVE SortedByKey(_)
SortedByKey(list) ==
  IF list = <<>> THEN <<>>
  ELSE Insert(list[Len(list)], SortedByKey(SubSeq(list, 1, Len(list) - 1)))

\* collect_alternative_news(ticker, asset_type) on what scraping yields
AlternativeNews(ticker, scrape) ==
  IF scrape = [raises |-> TRUE]
    THEN [ticker |-> ticker, error |-> "Alternative news collection failed"]
  ELSE IF scrape.articles = <<>>
    THEN [ticker |-> ticker,
          status |-> "No articles found through alternative sources",
          metadata |-> [collected_at |-> "now"]]
  ELSE [ticker |-> ticker, asset_type |-> "asset_type",
        news_sentiment |-> [articles |-> scrape.articles],
        metadata |-> [total_articles |-> Len(scrape.articles),
                      note |-> "limited reliability"]]

\* PrimaryUnusable without the test for zero results
PrimaryUnusableNoZero(response) ==
  \/ response.status_code # 200
  \/ response.status # "ok"

\* the primary provider's answer sends the call to the fallback path:
\* `response.status_code != 200`, `status != "ok" or totalResults == 0`
PrimaryUnusable(response) ==
  \/ response.status_code # 200
  \/ response.status # "ok"
  \/ response.totalResults = 0

\* collect_news_sentiment(ticker, asset_type) on the provider's answer and
\* on what scraping yields
NewsSentiment(ticker, key, response, scrape) ==
  IF ~key THEN AlternativeNews(ticker, scrape)
  ELSE IF response = [raises |-> TRUE]
    THEN [ticker |-> ticker, error |-> "exception"]
  ELSE IF PrimaryUnusable(response) THEN AlternativeNews(ticker, scrape)
  ELSE LET articles == ProcessArticles(response.articles)
           daily_averages == Averages(GroupArticles(articles, <<>>), FALSE)
       IN [ticker |-> ticker, asset_type |-> "asset_type",
           news_sentiment |-> [daily_averages |-> SortedByKey(daily_averages),
                               articles |-> articles],
           metadata |-> [total_articles |-> Len(articles)]]

\* ------------------------------------------------------------------ social
\* `"tweets": tweets[:100]`
TweetCap == 100

\* `if created_at < start_date: continue`, `if len(text) < 10: continue`
Dropped(t, start_date) ==
  t.created_at.date_hour < start_date \/ t.clean_len < 10

\* the loop over the fetched tweets: one older than the window and one whose
\* cleaned text is under 10 characters are dropped, the others are scored
\* and appended in fetch order
RetainTweets(fetched, start_date) ==
  LET kept == SelectSeq(fetched, LAMBDA t : ~Dropped(t, start_date))
  IN [i \in DOMAIN kept |->
        [id |-> kept[i].id, created_at |-> kept[i].created_at,
         user_followers |-> kept[i].followers_count,
         retweet_count |-> kept[i].retweet_count,
         favorite_count |-> kept[i].favorite_count,
         sentiment |-> Sentiment(kept[i].compound)]]

\* the weight cannot be computed: an operand of the sum is None (TypeError)
WeightRaises(tweet) ==
  \/ tweet.retweet_count = None
  \/ tweet.favorite_count = None
  \/ tweet.user_followers = None

\* 1 + 0.1 * (retweet_count + favorite_count) + 0.001 * user_followers, in
\* thousandths
Weight(tweet) ==
  1000 + 100 * (tweet.retweet_count.n + tweet.favorite_count.n)
    + tweet.user_followers.n

\* one iteration of `for tweet in tweets:`: the bucket is made first, then
\* the weight is computed; when that raises the tweet is passed over and the
\* bucket stays as it is
GroupTweet(t, buckets) ==
  LET date_hour == t.created_at.date_hour
      bs == WithBucket(buckets, date_hour)
      i == BucketIndex(bs, date_hour)
  IN IF WeightRaises(t)
       THEN bs
       ELSE [bs EXCEPT ![i] = CountItem(@, t.sentiment, Weight(t))]

\* the loop `for tweet in tweets:` over the tweets lo..hi, in order (the
\* range is halved, and the first half is evaluated before the second is
\* entered, to keep the evaluation shallow)
RECURSIVE GroupTweets(_, _, _, _)
GroupTweets(tweets, lo, hi, buckets) ==
  IF lo > hi THEN buckets
  ELSE IF lo = hi THEN GroupTweet(tweets[lo], buckets)
  ELSE LET mid == (lo + hi) \div 2
           first == GroupTweets(tweets, lo, mid, buckets)
       IN IF first = <<>>
            THEN GroupTweets(tweets, mid + 1, hi, <<>>)
            ELSE GroupTweets(tweets, mid + 1, hi, first)

\* tweets[:100]
FirstTweets(tweets) ==
  SubSeq(tweets, 1, IF Len(tweets) < TweetCap THEN Len(tweets) ELSE TweetCap)

\* collect_social_sentiment(ticker, asset_type) on what the search yields
SocialSentiment(ticker, credentials, search, start_date) ==
  IF ~credentials
    THEN [ticker |-> ticker, status |-> "Twitter API credentials not provided"]
  ELSE IF search = [raises |-> TRUE]
    THEN [ticker |-> ticker, error |-> "Social sentiment collection failed"]
  ELSE LET tweets == RetainTweets(search.tweets, start_date)
           hourly_averages ==
             Averages(GroupTweets(tweets, 1, Len(tweets), <<>>), TRUE)
       IN [ticker |-> ticker, asset_type |-> "asset_type",
           social_sentiment |->
             [hourly_averages |-> SortedByKey(hourly_averages),
              tweets |-> FirstTweets(tweets)],
           metadata |-> [total_tweets |-> Len(tweets)]]

\* ------------------------------------------------------------------- price
\* IndicatorsComputed as soon as one trailing window is full
IndicatorsComputedFromSix(n) == n > 5

\* `if len(price_data) > 10:` the indicators are computed
IndicatorsComputed(n) == n > 10

\* the sum of the entries lo..hi of a series
RECURSIVE SumOf(_, _, _)
SumOf(series, lo, hi) ==
  IF lo > hi THEN 0 ELSE series[lo] + SumOf(series, lo + 1, hi)

\* the indicators of the point i (1-based, 0-based index i - 1 >= 5): the
\* volatility of the window closes[i-5:i] is kept as the window it is taken
\* of (0 for a flat window), momentum is in hundredths of a percent, the
\* volume ratio in hundredths and left out when the mean volume is 0
Indicators(closes, volumes, i) ==
  LET window == SubSeq(closes, i - 5, i - 1)
      flat == \A k \in DOMAIN window : window[k] = window[1]
      momentum == Round((closes[i] - closes[i - 5]) * 10000, closes[i - 5])
      volume_sum == SumOf(volumes, i - 5, i - 1)
      base == [volatility_5period |->
                 IF flat THEN [value |-> 0] ELSE [std_over_mean_of |-> window],
               momentum_5period |-> momentum]
  IN IF volume_sum > 0
       THEN [k \in DOMAIN base \cup {"volume_ratio_5period"} |->
               IF k = "volume_ratio_5period"
                 THEN Round(volumes[i] * 500, volume_sum)
                 ELSE base[k]]
       ELSE base

\* the entry of price_data for the bar i
PricePoint(closes, volumes, i) ==
  LET point == [close |-> closes[i], volume |-> volumes[i]]
  IN IF IndicatorsComputed(Len(closes)) /\ i - 1 >= 5
       THEN LET ind == Indicators(closes, volumes, i)
            IN [k \in DOMAIN point \cup DOMAIN ind |->
                  IF k \in DOMAIN ind THEN ind[k] ELSE point[k]]
       ELSE point

\* collect_price_data(ticker, asset_type) on the history the provider gives
PriceData(ticker, history) ==
  IF history = [raises |-> TRUE]
    THEN [ticker |-> ticker, error |-> "exception"]
  ELSE IF history.closes = <<>>
    THEN [error |-> "No historical data available"]
  ELSE [ticker |-> ticker, asset_type |-> "asset_type", interval |-> "1h",
        price_data |-> [i \in DOMAIN history.closes |->
                          PricePoint(history.closes, history.volumes, i)],
        metadata |-> [data_points |-> Len(history.closes)]]

\* ------------------------------------------- one collector call, its inputs
\* longest list of tweets drawn freely
MaxTweets == 2
\* how many tweets beyond TweetCap the long search results have
MaxOverCap == 1
\* longest price history
MaxBars == 12

\* all sequences over S of length at most n
SeqsUpTo(S, n) == UNION {[1..k -> S] : k \in 0..n}

Dates == {20240501, 20240502}

Hours == {24050110, 24050111}

\* the start of the window of a social call, and an hour before it
WindowStart == 24050100

BeforeWindow == 24043023

Compounds == {-50, 0, 50}

\* what the provider lists: an article whose title and description are too
\* short, and articles with or without a publishedAt
RawArticles ==
  {[text_len |-> 10, publishedAt |-> None, compound |-> 0]}
    \cup {[text_len |-> 40, publishedAt |-> p, compound |-> c] :
            p \in {None} \cup {[date |-> d, time |-> "T12:00:00Z"] : d \in Dates},
            c \in Compounds}

\* what requests.get(url) of the primary provider can give
Responses ==
  {[raises |-> TRUE], [status_code |-> 500],
   [status_code |-> 200, status |-> "error", totalResults |-> 0,
    articles |-> <<>>]}
    \cup {[status_code |-> 200, status |-> "ok", totalResults |-> Len(a),
           articles |-> a] : a \in SeqsUpTo(RawArticles, MaxArticles)}

\* what scraping the public sites can give
Scrapes ==
  {[raises |-> TRUE], [articles |-> <<>>],
   [articles |-> <<[published_at |-> "N/A", sentiment |-> Sentiment(50)]>>]}

\* a fetched tweet, without its id: too old, too short, or retained, with
\* a like count that may be null
TweetKinds ==
  {[created_at |-> [date_hour |-> BeforeWindow, minute |-> 30],
    clean_len |-> 40, compound |-> 0, followers_count |-> [n |-> 0],
    retweet_count |-> [n |-> 0], favorite_count |-> [n |-> 0]],
   [created_at |-> [date_hour |-> 24050110, minute |-> 30],
    clean_len |-> 5, compound |-> 0, followers_count |-> [n |-> 0],
    retweet_count |-> [n |-> 0], favorite_count |-> [n |-> 0]]}
    \cup {[created_at |-> [date_hour |-> h, minute |-> 30],
           clean_len |-> 40, compound |-> c, followers_count |-> [n |-> 100],
           retweet_count |-> [n |-> 0], favorite_count |-> f] :
            h \in Hours, c \in Compounds, f \in {[n |-> 0], [n |-> 5], None}}

\* the tweets in fetch order, the id of each its place
WithIds(kinds) ==
  [i \in DOMAIN kinds |->
     [k \in DOMAIN kinds[i] \cup {"id"} |-> IF k = "id" THEN i ELSE kinds[i][k]]]

\* a long search result of n tweets over the two hours, later hour first;
\* with null_like the last tweet has no like count
LongSearch(n, null_like) ==
  WithIds([i \in 1..n |->
    [created_at |-> [date_hour |-> IF i % 2 = 1 THEN 24050111 ELSE 24050110,
                     minute |-> i % 60],
     clean_len |-> 40,
     compound |-> IF i % 3 = 0 THEN 50 ELSE IF i % 3 = 1 THEN -50 ELSE 0,
     followers_count |-> [n |-> 100],
     retweet_count |-> [n |-> 0],
     favorite_count |-> IF null_like /\ i = n THEN None ELSE [n |-> i % 7]]])

Searches ==
  {[raises |-> TRUE]}
    \cup {[tweets |-> WithIds(k)] : k \in SeqsUpTo(TweetKinds, MaxTweets)}
    \cup {[tweets |-> LongSearch(n, b)] :
            n \in (TweetCap - 1)..(TweetCap + MaxOverCap), b \in BOOLEAN}

\* the shapes of a price history: closes and volumes by bar
ClosePatterns == {"flat", "rising", "falling"}

VolumePatterns == {"flat", "none", "growing"}

CloseAt(pattern, i) ==
  CASE pattern = "flat" -> 100
    [] pattern = "rising" -> 100 + i
    [] pattern = "falling" -> 100 - i

VolumeAt(pattern, i) ==
  CASE pattern = "flat" -> 1000
    [] pattern = "none" -> 0
    [] pattern = "growing" -> 1000 * i

Histories ==
  {[raises |-> TRUE]}
    \cup {[closes |-> [i \in 1..n |-> CloseAt(cp, i)],
           volumes |-> [i \in 1..n |-> VolumeAt(vp, i)]] :
            n \in 0..MaxBars, cp \in ClosePatterns, vp \in VolumePatterns}

Calls ==
  {[fn |-> "price", history |-> h] : h \in Histories}
    \cup {[fn |-> "news", response |-> r, scrape |-> x] :
            r \in Responses, x \in Scrapes}
    \cup {[fn |-> "social", search |-> x] : x \in Searches}

\* the state before one collector call; no batch is running
InitCollect ==
  /\ call \in Calls
  /\ newsapi_key \in (IF call.fn = "news" THEN BOOLEAN ELSE {FALSE})
  /\ twitter_credentials \in (IF call.fn = "social" THEN BOOLEAN ELSE {FALSE})
  /\ ret = None
  /\ tickers = <<MajorStocks[1]>>
  /\ collect = [c \in CatSet |-> FALSE]
  /\ pc = "collector"
  /\ phase = 1
  /\ tasks = [c \in CatSet |-> <<>>]
  /\ work_queue = <<>>
  /\ results = <<>>
  /\ files = <<>>
  /\ slept = 0
  /\ pauses = [c \in CatSet |-> 0]
  /\ iter = [branch |-> "none"]
  /\ faults = 0
  /\ social_calls = 0
  /\ retval = [kind |-> "running"]

batch_vars == <<tickers, collect, twitter_credentials, newsapi_key, pc, phase,
                tasks, work_queue, results, files, slept, pauses, iter, faults,
                social_calls, retval>>

CallPrice ==
  /\ call.fn = "price"
  /\ ret = None
  /\ ret' = PriceData(tickers[1], call.history)
  /\ UNCHANGED <<call, batch_vars>>

CallNews ==
  /\ call.fn = "news"
  /\ ret = None
  /\ ret' = NewsSentiment(tickers[1], newsapi_key, call.response, call.scrape)
  /\ UNCHANGED <<call, batch_vars>>

CallSocial ==
  /\ call.fn = "social"
  /\ ret = None
  /\ ret' = SocialSentiment(tickers[1], twitter_credentials, call.search,
                            WindowStart)
  /\ UNCHANGED <<call, batch_vars>>

NextCollect ==
  \/ CallPrice
  \/ CallNews
  \/ CallSocial

SpecCollect == InitCollect /\ [][NextCollect]_vars

\* ----------------------------------------------- the claims on one call
\* the call under study has returned a primary-path news bundle
NewsPrimaryDone ==
  /\ call.fn = "news"
  /\ ret # None
  /\ HasKey(ret, "news_sentiment")
  /\ HasKey(ret.news_sentiment, "daily_averages")

\* the call under study has returned a social bundle
SocialDone ==
  /\ call.fn = "social"
  /\ ret # None
  /\ HasKey(ret, "social_sentiment")

\* the call under study has returned a price series
PriceDone ==
  /\ call.fn = "price"
  /\ ret # None
  /\ HasKey(ret, "price_data")

\* the aggregates of the bundle returned, daily or hourly
ReturnedAverages ==
  IF NewsPrimaryDone THEN ret.news_sentiment.daily_averages
  ELSE IF SocialDone THEN ret.social_sentiment.hourly_averages
  ELSE <<>>

\* the accumulators the aggregates were computed from
ReturnedBuckets ==
  IF NewsPrimaryDone
    THEN GroupArticles(ret.news_sentiment.articles, <<>>)
  ELSE IF SocialDone
    THEN LET tweets == RetainTweets(call.search.tweets, WindowStart)
         IN GroupTweets(tweets, 1, Len(tweets), <<>>)
  ELSE <<>>

\* the sum of the counts of a list of aggregates
RECURSIVE SumCounts(_)
SumCounts(list) ==
  IF list = <<>> THEN 0 ELSE Head(list).count + SumCounts(Tail(list))

\* the places in the search result of the tweets that are retained
RetainedPlaces ==
  {i \in DOMAIN call.search.tweets :
     /\ call.search.tweets[i].created_at.date_hour >= WindowStart
     /\ call.search.tweets[i].clean_len >= 10}

\* C11: with a news credential, a primary answer with a non-200 HTTP status,
\* a non-"ok" provider status or zero results gives the very result the call
\* gives without a credential, for every outcome of the fallback sources;
\* it is an error result only when the fallback itself failed.
C11_PrimaryFailureIsFallback ==
  (/\ call.fn = "news"
   /\ ret # None
   /\ newsapi_key
   /\ call.response # [raises |-> TRUE]
   /\ \/ call.response.status_code # 200
      \/ call.response.status # "ok"
      \/ call.response.totalResults = 0) =>
    /\ ret = NewsSentiment(tickers[1], FALSE, call.response, call.scrape)
    /\ HasKey(ret, "error") => call.scrape = [raises |-> TRUE]

C11_Witness ==
  /\ call.fn = "news"
  /\ newsapi_key
  /\ call.response = [status_code |-> 500]
  /\ ret # None
  /\ HasKey(ret, "news_sentiment")
  /\ ret.metadata.total_articles = 1

\* C12 as claimed: for every series of N >= 6 points the two indicators are
\* attached to exactly the points of 0-based index >= 5, and 6 flat bars
\* (close 100, volume 1000) give one derived row, at index 5, with momentum
\* 0.0 and volume ratio 1.0.
C12_IndicatorsFromSixBars ==
  (PriceDone /\ Len(ret.price_data) >= 6) =>
    /\ \A i \in DOMAIN ret.price_data :
         /\ HasKey(ret.price_data[i], "volatility_5period") <=> i - 1 >= 5
         /\ HasKey(ret.price_data[i], "momentum_5period") <=> i - 1 >= 5
    /\ (/\ Len(ret.price_data) = 6
        /\ \A i \in 1..6 : /\ call.history.closes[i] = 100
                           /\ call.history.volumes[i] = 1000) =>
         /\ ret.price_data[6].momentum_5period = 0
         /\ ret.price_data[6].volume_ratio_5period = 100

\* C12: the two indicators are attached to exactly the points of 0-based
\* index >= 5 when the series has at least 11 points, and to no point when
\* it has 10 or fewer; flat bars (close 100, volume 1000) give, from 11 bars
\* on, momentum 0.0 and volume ratio 1.0 in every derived row.
C12_IndicatorsFromElevenBars ==
  PriceDone =>
    LET n == Len(ret.price_data)
        flat == \A i \in 1..n : /\ call.history.closes[i] = 100
                                /\ call.history.volumes[i] = 1000
    IN \A i \in 1..n :
         /\ HasKey(ret.price_data[i], "volatility_5period")
              <=> (n >= 11 /\ i - 1 >= 5)
         /\ HasKey(ret.price_data[i], "momentum_5period")
              <=> (n >= 11 /\ i - 1 >= 5)
         /\ (flat /\ n >= 11 /\ i - 1 >= 5) =>
              /\ ret.price_data[i].momentum_5period = 0
              /\ ret.price_data[i].volume_ratio_5period = 100
              /\ ret.price_data[i].volatility_5period = [value |-> 0]

C12_Witness ==
  /\ PriceDone
  /\ Len(ret.price_data) = 11
  /\ \A i \in 1..11 : /\ call.history.closes[i] = 100
                      /\ call.history.volumes[i] = 1000
  /\ ~HasKey(ret.price_data[5], "momentum_5period")
  /\ ret.price_data[6].momentum_5period = 0
  /\ ret.price_data[11].volume_ratio_5period = 100

\* C13: every daily and hourly aggregate returned has a count of at least
\* 1, comes from a bucket whose positive, negative and neutral counts add up
\* to that count, and has ratios that sum to 1 within the rounding of three
\* values to 3 decimals; a bucket without items is not among them.
C13_AggregatesOverItems ==
  /\ \A i \in DOMAIN ReturnedAverages :
       LET e == ReturnedAverages[i]
           sum == e.positive_ratio + e.negative_ratio + e.neutral_ratio
       IN /\ e.count >= 1
          /\ sum \in 999..1001
          /\ \E j \in DOMAIN ReturnedBuckets :
               LET b == ReturnedBuckets[j]
               IN /\ b.key = e.key
                  /\ b.count = e.count
                  /\ b.positive_count + b.negative_count + b.neutral_count
                       = b.count
  /\ \A j \in DOMAIN ReturnedBuckets :
       ReturnedBuckets[j].count = 0 =>
         \A i \in DOMAIN ReturnedAverages :
           ReturnedAverages[i].key # ReturnedBuckets[j].key

C13_Witness ==
  /\ SocialDone
  /\ Len(call.search.tweets) = 2
  /\ \E j \in DOMAIN ReturnedBuckets : ReturnedBuckets[j].count = 0
  /\ Len(ReturnedAverages) = 1
  /\ ReturnedAverages[1].neutral_ratio = 1000

\* the bucket keys of the items that were counted into a bucket
GroupedKeys ==
  IF NewsPrimaryDone
    THEN {ret.news_sentiment.articles[i].published_at.date :
            i \in {k \in DOMAIN ret.news_sentiment.articles :
                     ret.news_sentiment.articles[k].published_at # None}}
  ELSE IF SocialDone
    THEN {call.search.tweets[i].created_at.date_hour :
            i \in {k \in RetainedPlaces :
                     /\ call.search.tweets[k].retweet_count # None
                     /\ call.search.tweets[k].favorite_count # None
                     /\ call.search.tweets[k].followers_count # None}}
  ELSE {}

C15_CapAndFullAggregates ==
  SocialDone =>
    LET n == Cardinality(RetainedPlaces)
        embedded == ret.social_sentiment.tweets
    IN /\ ret.metadata.total_tweets = n
       /\ Len(embedded) = IF n < 100 THEN n ELSE 100
       /\ \A i \in DOMAIN embedded :
            /\ embedded[i].id \in RetainedPlaces
            /\ Cardinality({p \in RetainedPlaces : p <= embedded[i].id}) = i
       /\ SumCounts(ReturnedAverages) = n

\* C16: in a primary-path news bundle the counts of the daily aggregates add
\* up to metadata.total_articles, the length of the article list.
C16_EveryArticleCounted ==
  NewsPrimaryDone =>
    /\ ret.metadata.total_articles = Len(ret.news_sentiment.articles)
    /\ SumCounts(ReturnedAverages) = ret.metadata.total_articles

\* ------------------------------------------- the claims on the whole batch
\* the futures that pass from one state to another in a step
Moved(from, to) ==
  {t \in Submitted : /\ tasks[t[1]][t[2]].state = from
                     /\ tasks'[t[1]][t[2]].state = to}

\* a step of a pool worker: a future starts to run or gets its result
WorkerStep == Moved("queued", "running") # {} \/ Moved("running", "done") # {}

\* C17: the result map changes only in a step of the completion loop, taken
\* by the caller between two iterations with exactly one future in hand; no
\* step of a pool worker changes it, and a worker's result does not depend
\* on it.
C17_WrittenByCallerOnly ==
  /\ results' # results =>
       /\ pc = "loop" /\ pc' = "sleep"
       /\ Cardinality(Moved("done", "handled")) = 1
       /\ ~WorkerStep
  /\ (tasks' # tasks /\ results' = results) =>
       \A t \in Moved("running", "done") :
         tasks'[t[1]][t[2]].data \in Collector(t[1], tasks[t[1]][t[2]].ticker)

C17_SingleWriter == [][C17_WrittenByCallerOnly]_vars

C17_Witness ==
  /\ pc = "sleep"
  /\ iter.branch = "saved"
  /\ HasKey(results, IterTicker)
  /\ Cardinality(Running) >= 2
  /\ Completed # {}

\* C18: once a phase is over, no entry of the result map holds both
\* <category> and <category>_error, and the file of a symbol exists only if
\* the symbol's entry holds <category>; also for a list naming a symbol
\* twice.
C18_NeverBothKeys ==
  \A c \in CatSet :
    PhaseOver(c) =>
      \A t \in Range(tickers) :
        /\ HasKey(results, t) =>
             ~(HasKey(results[t], c) /\ HasKey(results[t], ErrKey(c)))
        /\ HasKey(files, <<c, t>>) =>
             HasKey(results, t) /\ HasKey(results[t], c)

\* the scheduling: the caller thread and the pool's workers keep running,
\* and every collector call comes back
SpecFair == Spec /\ WF_vars(Next)

\* every task of every phase that ran has been handled
C19_NoneLeft ==
  pc = "done" =>
    /\ work_queue = <<>>
    /\ \A c \in CatSet :
         /\ PhaseEnabled(c) => Len(tasks[c]) = Len(tickers)
         /\ ~PhaseEnabled(c) => tasks[c] = <<>>
         /\ \A i \in DOMAIN tasks[c] : tasks[c][i].state = "handled"
         /\ pauses[c] = Len(tasks[c])

\* a handled future stays handled, and a step handles at most one
C19_OnceEach ==
  /\ \A t \in Submitted :
       tasks[t[1]][t[2]].state = "handled" =>
         /\ t[2] \in DOMAIN tasks'[t[1]]
         /\ tasks'[t[1]][t[2]] = tasks[t[1]][t[2]]
  /\ Cardinality(Moved("done", "handled")) <= 1
  /\ Moved("done", "handled") # {} => pc = "loop" /\ pc' = "sleep"
  /\ Moved("queued", "handled") = {}
  /\ Moved("running", "handled") = {}

\* C19: the batch call terminates, by then every submitted task has been
\* handled by the completion loop of its phase, one iteration per task, and
\* no task is handled twice, cancelled or left over; the loop takes the
\* tasks as they complete.
C19_TerminatesAllHandledOnce ==
  /\ <>(pc = "done")
  /\ [](C19_NoneLeft)
  /\ [][C19_OnceEach]_vars

C19_Witness ==
  /\ pc = "done"
  /\ Len(tickers) = 3
  /\ \A c \in CatSet : PhaseEnabled(c) /\ HandledCount(c) = 3

====
